---- MODULE Spec2Model ----
(***************************************************************************)
(* Model of package onlyoffice (file.go): four extension tables and the    *)
(* fileUtility methods that consult them, split file names, escape file    *)
(* names and validate a remote file's size with a HEAD request.            *)
(*                                                                         *)
(* A Go string is modelled as a sequence of one-character strings.         *)
(***************************************************************************)
EXTENDS Integers, Sequences, FiniteSets, TLC

VARIABLES
    OnlyofficeEditableExtensions,          \* package variable, map[string]string
    OnlyofficeOOXMLEditableExtensions,     \* package variable, map[string]string
    OnlyofficeDataLossEditableExtensions,  \* package variable, map[string]string
    OnlyofficeViewOnlyExtensions,          \* package variable, map[string]string
    goos,                                  \* build target, fixes os.IsPathSeparator
    calls                                  \* per goroutine: the call it made and what it got back

tables == <<OnlyofficeEditableExtensions, OnlyofficeOOXMLEditableExtensions,
            OnlyofficeDataLossEditableExtensions, OnlyofficeViewOnlyExtensions>>

vars == <<OnlyofficeEditableExtensions, OnlyofficeOOXMLEditableExtensions,
          OnlyofficeDataLossEditableExtensions, OnlyofficeViewOnlyExtensions, goos, calls>>

----------------------------------------------------------------------------
(* Bounds of the model *)

\* longest file name drawn as an input
MaxNameLen == 4

\* longest Content-Length header value drawn as an input
MaxHeaderLen == 3

\* width of Go's int scaled down: int ranges over -2^IntBits .. 2^IntBits - 1
IntBits == 7

----------------------------------------------------------------------------
(* Errors and document types *)

ErrOnlyofficeExtensionNotSupported == "file extension is not supported"

ErrInvalidContentLength == "could not perform api actions due to exceeding content-length"

OnlyofficeWordType == "word"

OnlyofficeCellType == "cell"

OnlyofficeSlideType == "slide"

\* the nil error
nil == "nil"

\* the empty Go string used as a file type
EmptyType == ""

----------------------------------------------------------------------------
(* The four tables as the package initialises them *)

InitEditableExtensions ==
       <<"d","o","c","m">> :> OnlyofficeWordType
    @@ <<"d","o","c","x">> :> OnlyofficeWordType
    @@ <<"d","o","c","x","f">> :> OnlyofficeWordType
    @@ <<"o","f","o","r","m">> :> OnlyofficeWordType
    @@ <<"d","o","t","m">> :> OnlyofficeWordType
    @@ <<"d","o","t","x">> :> OnlyofficeWordType
    @@ <<"x","l","s","m">> :> OnlyofficeCellType
    @@ <<"x","l","s","x">> :> OnlyofficeCellType
    @@ <<"x","l","t","m">> :> OnlyofficeCellType
    @@ <<"x","l","t","x">> :> OnlyofficeCellType
    @@ <<"p","o","t","m">> :> OnlyofficeSlideType
    @@ <<"p","o","t","x">> :> OnlyofficeSlideType
    @@ <<"p","p","s","m">> :> OnlyofficeSlideType
    @@ <<"p","p","s","x">> :> OnlyofficeSlideType
    @@ <<"p","p","t","m">> :> OnlyofficeSlideType
    @@ <<"p","p","t","x">> :> OnlyofficeSlideType

InitOOXMLEditableExtensions ==
       <<"d","o","c">> :> OnlyofficeWordType
    @@ <<"d","o","t">> :> OnlyofficeWordType
    @@ <<"f","o","d","t">> :> OnlyofficeWordType
    @@ <<"m","h","t">> :> OnlyofficeWordType
    @@ <<"x","m","l">> :> OnlyofficeWordType
    @@ <<"s","x","w">> :> OnlyofficeWordType
    @@ <<"s","t","w">> :> OnlyofficeWordType
    @@ <<"h","t","m">> :> OnlyofficeWordType
    @@ <<"m","h","t","m","l">> :> OnlyofficeWordType
    @@ <<"w","p","s">> :> OnlyofficeWordType
    @@ <<"w","p","t">> :> OnlyofficeWordType
    @@ <<"f","o","d","s">> :> OnlyofficeCellType
    @@ <<"x","l","s">> :> OnlyofficeCellType
    @@ <<"x","l","t">> :> OnlyofficeCellType
    @@ <<"s","x","c">> :> OnlyofficeCellType
    @@ <<"e","t">> :> OnlyofficeCellType
    @@ <<"e","t","t">> :> OnlyofficeCellType
    @@ <<"x","l","s","b">> :> OnlyofficeCellType
    @@ <<"f","o","d","p">> :> OnlyofficeSlideType
    @@ <<"p","o","t">> :> OnlyofficeSlideType
    @@ <<"p","p","s">> :> OnlyofficeSlideType
    @@ <<"p","p","t">> :> OnlyofficeSlideType
    @@ <<"s","x","i">> :> OnlyofficeSlideType
    @@ <<"d","p","s">> :> OnlyofficeSlideType
    @@ <<"d","p","t">> :> OnlyofficeSlideType

\* a slip of the data-loss table: "xml" is listed again, as a spreadsheet
InitDataLossEditableExtensionsDup ==
       <<"e","p","u","b">> :> OnlyofficeWordType
    @@ <<"f","b","2">> :> OnlyofficeWordType
    @@ <<"h","t","m","l">> :> OnlyofficeWordType
    @@ <<"o","d","t">> :> OnlyofficeWordType
    @@ <<"o","t","t">> :> OnlyofficeWordType
    @@ <<"r","t","f">> :> OnlyofficeWordType
    @@ <<"t","x","t">> :> OnlyofficeWordType
    @@ <<"x","m","l">> :> OnlyofficeCellType
    @@ <<"c","s","v">> :> OnlyofficeCellType
    @@ <<"o","d","s">> :> OnlyofficeCellType
    @@ <<"o","t","s">> :> OnlyofficeCellType
    @@ <<"o","d","p">> :> OnlyofficeSlideType
    @@ <<"o","t","p">> :> OnlyofficeSlideType

InitDataLossEditableExtensions ==
       <<"e","p","u","b">> :> OnlyofficeWordType
    @@ <<"f","b","2">> :> OnlyofficeWordType
    @@ <<"h","t","m","l">> :> OnlyofficeWordType
    @@ <<"o","d","t">> :> OnlyofficeWordType
    @@ <<"o","t","t">> :> OnlyofficeWordType
    @@ <<"r","t","f">> :> OnlyofficeWordType
    @@ <<"t","x","t">> :> OnlyofficeWordType
    @@ <<"c","s","v">> :> OnlyofficeCellType
    @@ <<"o","d","s">> :> OnlyofficeCellType
    @@ <<"o","t","s">> :> OnlyofficeCellType
    @@ <<"o","d","p">> :> OnlyofficeSlideType
    @@ <<"o","t","p">> :> OnlyofficeSlideType

\* a slip of the view-only table: one key is written in capitals
InitViewOnlyExtensionsUpper ==
       <<"d","j","v","u">> :> OnlyofficeWordType
    @@ <<"o","x","p","s">> :> OnlyofficeWordType
    @@ <<"P","D","F">> :> OnlyofficeWordType
    @@ <<"x","p","s">> :> OnlyofficeWordType

InitViewOnlyExtensions ==
       <<"d","j","v","u">> :> OnlyofficeWordType
    @@ <<"o","x","p","s">> :> OnlyofficeWordType
    @@ <<"p","d","f">> :> OnlyofficeWordType
    @@ <<"x","p","s">> :> OnlyofficeWordType

InitTables == <<InitEditableExtensions, InitOOXMLEditableExtensions,
                InitDataLossEditableExtensions, InitViewOnlyExtensions>>

----------------------------------------------------------------------------
(* Library functions the methods call, computed as the Go library does *)

UpperLetters == <<"A","B","C","D","E","F","G","H","I","J","K","L","M",
                  "N","O","P","Q","R","S","T","U","V","W","X","Y","Z">>

LowerLetters == <<"a","b","c","d","e","f","g","h","i","j","k","l","m",
                  "n","o","p","q","r","s","t","u","v","w","x","y","z">>

Digits == <<"0","1","2","3","4","5","6","7","8","9">>

\* position of c in the sequence s, 0 when absent
IndexIn(s, c) == IF \E i \in 1..Len(s) : s[i] = c
                 THEN CHOOSE i \in 1..Len(s) : s[i] = c
                 ELSE 0

\* unicode.ToLower on one character
ToLowerRune(c) == IF IndexIn(UpperLetters, c) > 0
                  THEN LowerLetters[IndexIn(UpperLetters, c)]
                  ELSE c

\* unicode.ToUpper on one character
ToUpperRune(c) == IF IndexIn(LowerLetters, c) > 0
                  THEN UpperLetters[IndexIn(LowerLetters, c)]
                  ELSE c

\* strings.ToLower
ToLower(s) == [i \in 1..Len(s) |-> ToLowerRune(s[i])]

\* strings.ReplaceAll for a one-character old and any replacement string
RECURSIVE ReplaceAll(_, _, _)
ReplaceAll(s, old, new) ==
    IF s = <<>> THEN <<>>
    ELSE (IF Head(s) = old THEN new ELSE <<Head(s)>>) \o ReplaceAll(Tail(s), old, new)

\* strings.HasSuffix
HasSuffix(s, suffix) ==
    /\ Len(s) >= Len(suffix)
    /\ SubSeq(s, Len(s) - Len(suffix) + 1, Len(s)) = suffix

\* strings.TrimSuffix
TrimSuffix(s, suffix) ==
    IF HasSuffix(s, suffix) THEN SubSeq(s, 1, Len(s) - Len(suffix)) ELSE s

\* os.IsPathSeparator for the build target
IsPathSeparator(c) == IF goos = "windows" THEN c \in {"/", "\\"} ELSE c = "/"

\* the loop of filepath.Ext, from index i down to 1
RECURSIVE ExtFrom(_, _)
ExtFrom(path, i) ==
    IF i < 1 \/ IsPathSeparator(path[i]) THEN <<>>
    ELSE IF path[i] = "." THEN SubSeq(path, i, Len(path))
    ELSE ExtFrom(path, i - 1)

\* a slip of filepath.Ext: cuts at the first dot of the final element
RECURSIVE ExtFirstDotFrom(_, _, _)
ExtFirstDotFrom(path, i, found) ==
    IF i < 1 \/ IsPathSeparator(path[i]) THEN found
    ELSE IF path[i] = "." THEN ExtFirstDotFrom(path, i - 1, SubSeq(path, i, Len(path)))
    ELSE ExtFirstDotFrom(path, i - 1, found)

ExtFirstDot(path) == ExtFirstDotFrom(path, Len(path), <<>>)

\* filepath.Ext
Ext(path) == ExtFrom(path, Len(path))

\* strconv.IntSize scaled down to the model's integers
IntSize == IntBits + 1

NumErrSyntax == "strconv.ErrSyntax"

NumErrRange == "strconv.ErrRange"

\* value of a string of decimal digits
RECURSIVE DigitsValue(_)
DigitsValue(s) ==
    IF s = <<>> THEN 0
    ELSE 10 * DigitsValue(SubSeq(s, 1, Len(s) - 1)) + (IndexIn(Digits, s[Len(s)]) - 1)

\* strconv.ParseUint(s, 10, 0)
ParseUint(s) ==
    IF s = <<>> THEN [val |-> 0, err |-> NumErrSyntax]
    ELSE IF \E i \in 1..Len(s) : IndexIn(Digits, s[i]) = 0
         THEN [val |-> 0, err |-> NumErrSyntax]
    ELSE IF DigitsValue(s) > 2^IntSize - 1
         THEN [val |-> 2^IntSize - 1, err |-> NumErrRange]
    ELSE [val |-> DigitsValue(s), err |-> nil]

\* strconv.ParseInt(s, 10, 0)
ParseInt(s) ==
    IF s = <<>> THEN [val |-> 0, err |-> NumErrSyntax]
    ELSE LET neg    == s[1] = "-"
             rest   == IF s[1] \in {"+", "-"} THEN Tail(s) ELSE s
             un     == ParseUint(rest)
             cutoff == 2^(IntSize - 1)
         IN  IF un.err = NumErrSyntax THEN [val |-> 0, err |-> NumErrSyntax]
             ELSE IF ~neg /\ un.val >= cutoff THEN [val |-> cutoff - 1, err |-> NumErrRange]
             ELSE IF neg /\ un.val > cutoff THEN [val |-> -cutoff, err |-> NumErrRange]
             ELSE [val |-> IF neg THEN -un.val ELSE un.val, err |-> nil]

\* http.Header.Get("Content-Length"): the empty string when the header is not set
HeaderGet(header) == IF header.set THEN header.value ELSE <<>>


----------------------------------------------------------------------------
(* The methods of fileUtility *)

\* a slip of ValidateFileSize: a length equal to the limit is refused
ValidateFileSizeStrict(ctx, limit, url, head) ==
    IF head.err # nil THEN head.err
    ELSE LET parsed == ParseInt(HeaderGet(head.resp.header))
         IN  IF parsed.val >= limit \/ parsed.err # nil
             THEN ErrInvalidContentLength
             ELSE nil

\* a slip of ValidateFileSize: a response that is not 200 OK is refused
ValidateFileSizeStatus(ctx, limit, url, head) ==
    IF head.err # nil THEN head.err
    ELSE LET parsed == ParseInt(HeaderGet(head.resp.header))
         IN  IF head.resp.status # 200 \/ parsed.val > limit \/ parsed.err # nil
             THEN ErrInvalidContentLength
             ELSE nil

\* ValidateFileSize; head is what http.Head(url) returned: the response and the error
ValidateFileSize(ctx, limit, url, head) ==
    IF head.err # nil THEN head.err
    ELSE LET parsed == ParseInt(HeaderGet(head.resp.header))
         IN  IF parsed.val > limit \/ parsed.err # nil
             THEN ErrInvalidContentLength
             ELSE nil

\* a slip of EscapeFilename: the forward slash is left in place
EscapeFilenameBackslashOnly(filename) == ReplaceAll(filename, "\\", <<":">>)

EscapeFilename(filename) ==
    LET f == ReplaceAll(filename, "\\", <<":">>)
    IN  ReplaceAll(f, "/", <<":">>)

\* a slip of IsExtensionSupported: the OOXML table is not consulted
IsExtensionSupportedNoOOXML(fileExt) ==
    LET ext == ToLower(fileExt)
    IN  IF ext \in DOMAIN OnlyofficeDataLossEditableExtensions THEN TRUE
        ELSE IF ext \in DOMAIN OnlyofficeEditableExtensions THEN TRUE
        ELSE IF ext \in DOMAIN OnlyofficeViewOnlyExtensions THEN TRUE
        ELSE FALSE

IsExtensionSupported(fileExt) ==
    LET ext == ToLower(fileExt)
    IN  IF ext \in DOMAIN OnlyofficeDataLossEditableExtensions THEN TRUE
        ELSE IF ext \in DOMAIN OnlyofficeEditableExtensions THEN TRUE
        ELSE IF ext \in DOMAIN OnlyofficeOOXMLEditableExtensions THEN TRUE
        ELSE IF ext \in DOMAIN OnlyofficeViewOnlyExtensions THEN TRUE
        ELSE FALSE

IsExtensionEditable(fileExt) ==
    ToLower(fileExt) \in DOMAIN OnlyofficeEditableExtensions

\* a slip of IsExtensionViewOnly: the extension is looked up as given
IsExtensionViewOnlyExact(fileExt) ==
    fileExt \in DOMAIN OnlyofficeViewOnlyExtensions

IsExtensionViewOnly(fileExt) ==
    ToLower(fileExt) \in DOMAIN OnlyofficeViewOnlyExtensions

IsExtensionLossEditable(fileExt) ==
    ToLower(fileExt) \in DOMAIN OnlyofficeDataLossEditableExtensions

IsExtensionOOXMLConvertable(fileExt) ==
    ToLower(fileExt) \in DOMAIN OnlyofficeOOXMLEditableExtensions

GetFilenameWithoutExtension(filename) == TrimSuffix(filename, Ext(filename))

\* a slip of GetFileType: the view-only table is not consulted
GetFileTypeNoViewOnly(fileExt) ==
    LET ext == ToLower(fileExt)
    IN  IF ext \in DOMAIN OnlyofficeEditableExtensions
        THEN <<OnlyofficeEditableExtensions[ext], nil>>
        ELSE IF ext \in DOMAIN OnlyofficeDataLossEditableExtensions
        THEN <<OnlyofficeDataLossEditableExtensions[ext], nil>>
        ELSE IF ext \in DOMAIN OnlyofficeOOXMLEditableExtensions
        THEN <<OnlyofficeOOXMLEditableExtensions[ext], nil>>
        ELSE <<EmptyType, ErrOnlyofficeExtensionNotSupported>>

\* GetFileType returns the pair (file type, error)
GetFileType(fileExt) ==
    LET ext == ToLower(fileExt)
    IN  IF ext \in DOMAIN OnlyofficeEditableExtensions
        THEN <<OnlyofficeEditableExtensions[ext], nil>>
        ELSE IF ext \in DOMAIN OnlyofficeDataLossEditableExtensions
        THEN <<OnlyofficeDataLossEditableExtensions[ext], nil>>
        ELSE IF ext \in DOMAIN OnlyofficeOOXMLEditableExtensions
        THEN <<OnlyofficeOOXMLEditableExtensions[ext], nil>>
        ELSE IF ext \in DOMAIN OnlyofficeViewOnlyExtensions
        THEN <<OnlyofficeViewOnlyExtensions[ext], nil>>
        ELSE <<EmptyType, ErrOnlyofficeExtensionNotSupported>>

GetFileExt(filename) == ReplaceAll(Ext(filename), ".", <<>>)

----------------------------------------------------------------------------
(* Inputs the callers draw from *)

\* every spelling of s in upper and lower case letters
RECURSIVE CaseVariants(_)
CaseVariants(s) ==
    IF s = <<>> THEN {<<>>}
    ELSE {<<c>> \o t : c \in {ToLowerRune(Head(s)), ToUpperRune(Head(s))},
                       t \in CaseVariants(Tail(s))}

TableKeys == DOMAIN InitEditableExtensions \cup DOMAIN InitOOXMLEditableExtensions
             \cup DOMAIN InitDataLossEditableExtensions \cup DOMAIN InitViewOnlyExtensions

\* extensions that are in no table
OtherExts == { <<>>, <<"e","x","e">>, <<"d","o">>, <<"d","o","c","x","x">>,
               <<".","d","o","c","x">>, <<"p","d","f",".">>, <<"f","b","3">>,
               <<"x","l","s","x","/">> }

ExtInputs == UNION {CaseVariants(k) : k \in TableKeys \cup OtherExts}

NameChars == {"a", "B", ".", "/", "\\", ":"}

SeqsUpTo(chars, n) == UNION {[1..k -> chars] : k \in 0..n}

LongNames == { <<"a",".","t","a","r",".","g","z">>, <<".","b","a","s","h","r","c">>,
               <<"d","i","r",".","d","/","R","e","p",".","D","o","c","X">>,
               <<"C",":","\\","t",".","m","p","\\","f">> }

Filenames == SeqsUpTo(NameChars, MaxNameLen) \cup LongNames

HeaderChars == {"0", "1", "9", "-", "+", "x"}

NoContentLength == [set |-> FALSE, value |-> <<>>]

ContentLengths(values) == {NoContentLength} \cup {[set |-> TRUE, value |-> v] : v \in values}

TransportErrors == {"dial tcp: connection refused", "unsupported protocol scheme"}

\* what http.Head can return: an error and no response, or a response and no error
HeadResults(errs, statuses, headers) ==
    {[err |-> e, resp |-> [status |-> 0, header |-> NoContentLength]] : e \in errs}
    \cup {[err |-> nil, resp |-> [status |-> s, header |-> h]] : s \in statuses, h \in headers}

\* the arguments of a ValidateFileSize call together with the outcome of its HEAD request
SizeChecks(ctxs, limits, heads) ==
    {[ctx |-> c, limit |-> l, url |-> "http://files/doc", head |-> h] :
        c \in ctxs, l \in limits, h \in heads}

Ctxs == {"background", "cancelled"}

Limits == {-1, 0, 10, 100}

Statuses == {200, 404}

WideSizeChecks ==
    SizeChecks(Ctxs, Limits,
               HeadResults(TransportErrors, Statuses,
                           ContentLengths(SeqsUpTo(HeaderChars, MaxHeaderLen))))

\* the narrow inputs of the goroutines that run side by side
FewExts == { <<"d","o","c","x">>, <<"P","D","F">>, <<"e","x","e">> }

FewNames == { <<"a",".","B">>, <<"a","/","B","\\",".">> }

FewSizeChecks ==
    SizeChecks(Ctxs, {10},
               HeadResults(TransportErrors, Statuses,
                           ContentLengths({<<"1","0">>, <<"1","1">>})))

NumGoroutines == 2

----------------------------------------------------------------------------
(* State machine: each goroutine calls a method, gets its result, and goes on *)

Idle == [pc |-> "idle", op |-> "none", arg |-> <<>>, ret |-> <<>>, heads |-> 0]

Returned(op, arg, ret, heads) ==
    [pc |-> "returned", op |-> op, arg |-> arg, ret |-> ret, heads |-> heads]

InitCommon ==
    /\ OnlyofficeEditableExtensions = InitEditableExtensions
    /\ OnlyofficeOOXMLEditableExtensions = InitOOXMLEditableExtensions
    /\ OnlyofficeDataLossEditableExtensions = InitDataLossEditableExtensions
    /\ OnlyofficeViewOnlyExtensions = InitViewOnlyExtensions
    /\ goos \in {"linux", "windows"}

Init == InitCommon /\ calls = [g \in {1} |-> Idle]

InitGoroutines == InitCommon /\ calls = [g \in 1..NumGoroutines |-> Idle]

\* ValidateFileSize calls http.Head once and judges what came back
CallValidateFileSize(g, checks) ==
    /\ calls[g].pc = "idle"
    /\ \E a \in checks :
          calls' = [calls EXCEPT ![g] =
                      Returned("ValidateFileSize", a,
                               ValidateFileSize(a.ctx, a.limit, a.url, a.head), 1)]
    /\ UNCHANGED <<tables, goos>>

CallEscapeFilename(g, names) ==
    /\ calls[g].pc = "idle"
    /\ \E f \in names :
          calls' = [calls EXCEPT ![g] = Returned("EscapeFilename", f, EscapeFilename(f), 0)]
    /\ UNCHANGED <<tables, goos>>

CallIsExtensionSupported(g, exts) ==
    /\ calls[g].pc = "idle"
    /\ \E e \in exts :
          calls' = [calls EXCEPT ![g] =
                      Returned("IsExtensionSupported", e, IsExtensionSupported(e), 0)]
    /\ UNCHANGED <<tables, goos>>

CallIsExtensionEditable(g, exts) ==
    /\ calls[g].pc = "idle"
    /\ \E e \in exts :
          calls' = [calls EXCEPT ![g] =
                      Returned("IsExtensionEditable", e, IsExtensionEditable(e), 0)]
    /\ UNCHANGED <<tables, goos>>

CallIsExtensionViewOnly(g, exts) ==
    /\ calls[g].pc = "idle"
    /\ \E e \in exts :
          calls' = [calls EXCEPT ![g] =
                      Returned("IsExtensionViewOnly", e, IsExtensionViewOnly(e), 0)]
    /\ UNCHANGED <<tables, goos>>

CallIsExtensionLossEditable(g, exts) ==
    /\ calls[g].pc = "idle"
    /\ \E e \in exts :
          calls' = [calls EXCEPT ![g] =
                      Returned("IsExtensionLossEditable", e, IsExtensionLossEditable(e), 0)]
    /\ UNCHANGED <<tables, goos>>

CallIsExtensionOOXMLConvertable(g, exts) ==
    /\ calls[g].pc = "idle"
    /\ \E e \in exts :
          calls' = [calls EXCEPT ![g] =
                      Returned("IsExtensionOOXMLConvertable", e,
                               IsExtensionOOXMLConvertable(e), 0)]
    /\ UNCHANGED <<tables, goos>>

CallGetFilenameWithoutExtension(g, names) ==
    /\ calls[g].pc = "idle"
    /\ \E f \in names :
          calls' = [calls EXCEPT ![g] =
                      Returned("GetFilenameWithoutExtension", f,
                               GetFilenameWithoutExtension(f), 0)]
    /\ UNCHANGED <<tables, goos>>

\* a slip of GetFileType: an extension that was not found is remembered in a table
CallGetFileTypeCaching(g, exts) ==
    /\ calls[g].pc = "idle"
    /\ \E e \in exts :
          /\ calls' = [calls EXCEPT ![g] = Returned("GetFileType", e, GetFileType(e), 0)]
          /\ OnlyofficeViewOnlyExtensions' =
                IF GetFileType(e)[2] = nil THEN OnlyofficeViewOnlyExtensions
                ELSE (ToLower(e) :> OnlyofficeWordType) @@ OnlyofficeViewOnlyExtensions
    /\ UNCHANGED <<OnlyofficeEditableExtensions, OnlyofficeOOXMLEditableExtensions,
                   OnlyofficeDataLossEditableExtensions, goos>>

CallGetFileType(g, exts) ==
    /\ calls[g].pc = "idle"
    /\ \E e \in exts :
          calls' = [calls EXCEPT ![g] = Returned("GetFileType", e, GetFileType(e), 0)]
    /\ UNCHANGED <<tables, goos>>

CallGetFileExt(g, names) ==
    /\ calls[g].pc = "idle"
    /\ \E f \in names :
          calls' = [calls EXCEPT ![g] = Returned("GetFileExt", f, GetFileExt(f), 0)]
    /\ UNCHANGED <<tables, goos>>

\* the caller has used the result and is free to call again
Return(g) ==
    /\ calls[g].pc = "returned"
    /\ calls' = [calls EXCEPT ![g] = Idle]
    /\ UNCHANGED <<tables, goos>>

Next ==
    \/ \E g \in DOMAIN calls : CallValidateFileSize(g, WideSizeChecks)
    \/ \E g \in DOMAIN calls : CallEscapeFilename(g, Filenames)
    \/ \E g \in DOMAIN calls : CallIsExtensionSupported(g, ExtInputs)
    \/ \E g \in DOMAIN calls : CallIsExtensionEditable(g, ExtInputs)
    \/ \E g \in DOMAIN calls : CallIsExtensionViewOnly(g, ExtInputs)
    \/ \E g \in DOMAIN calls : CallIsExtensionLossEditable(g, ExtInputs)
    \/ \E g \in DOMAIN calls : CallIsExtensionOOXMLConvertable(g, ExtInputs)
    \/ \E g \in DOMAIN calls : CallGetFilenameWithoutExtension(g, Filenames)
    \/ \E g \in DOMAIN calls : CallGetFileType(g, ExtInputs)
    \/ \E g \in DOMAIN calls : CallGetFileExt(g, Filenames)
    \/ \E g \in DOMAIN calls : Return(g)

Spec == Init /\ [][Next]_vars

NextGoroutines ==
    \/ \E g \in DOMAIN calls : CallValidateFileSize(g, FewSizeChecks)
    \/ \E g \in DOMAIN calls : CallEscapeFilename(g, FewNames)
    \/ \E g \in DOMAIN calls : CallIsExtensionSupported(g, FewExts)
    \/ \E g \in DOMAIN calls : CallIsExtensionEditable(g, FewExts)
    \/ \E g \in DOMAIN calls : CallIsExtensionViewOnly(g, FewExts)
    \/ \E g \in DOMAIN calls : CallIsExtensionLossEditable(g, FewExts)
    \/ \E g \in DOMAIN calls : CallIsExtensionOOXMLConvertable(g, FewExts)
    \/ \E g \in DOMAIN calls : CallGetFilenameWithoutExtension(g, FewNames)
    \/ \E g \in DOMAIN calls : CallGetFileType(g, FewExts)
    \/ \E g \in DOMAIN calls : CallGetFileExt(g, FewNames)
    \/ \E g \in DOMAIN calls : Return(g)

SpecGoroutines == InitGoroutines /\ [][NextGoroutines]_vars

----------------------------------------------------------------------------
(* Properties *)

Categories == {OnlyofficeWordType, OnlyofficeCellType, OnlyofficeSlideType}

\* the tables that hold the key k
TablesWith(k) == {i \in 1..4 : k \in DOMAIN tables[i]}

IsReturned(g, op) == calls[g].pc = "returned" /\ calls[g].op = op

\* C1: GetFileType(e) returns (t, nil) with t the non-empty category stored for
\* lowercase(e) when lowercase(e) is a key of one of the four tables, and exactly
\* ("", ErrOnlyofficeExtensionNotSupported) otherwise; a non-empty type never comes
\* with an error, nor an empty type with a nil error.
C1_GetFileTypeContract ==
    \A g \in DOMAIN calls : IsReturned(g, "GetFileType") =>
        LET lower == ToLower(calls[g].arg)
            t     == calls[g].ret[1]
            err   == calls[g].ret[2]
        IN  /\ TablesWith(lower) # {} =>
                 /\ err = nil
                 /\ t # EmptyType
                 /\ t \in Categories
                 /\ \A i \in TablesWith(lower) : tables[i][lower] = t
            /\ TablesWith(lower) = {} =>
                 calls[g].ret = <<EmptyType, ErrOnlyofficeExtensionNotSupported>>
            /\ (t # EmptyType) <=> (err = nil)

C1_Witness ==
    /\ IsReturned(1, "GetFileType")
    /\ calls[1].arg = <<"X","p","S">>
    /\ calls[1].ret = <<OnlyofficeWordType, nil>>

\* C2: IsExtensionSupported(e) is true exactly when one of IsExtensionEditable(e),
\* IsExtensionLossEditable(e), IsExtensionOOXMLConvertable(e), IsExtensionViewOnly(e)
\* is true, and exactly when GetFileType(e) returns a nil error.
C2_SupportedIffAnyTable ==
    \A g \in DOMAIN calls : IsReturned(g, "IsExtensionSupported") =>
        LET e == calls[g].arg
        IN  /\ calls[g].ret <=> \/ IsExtensionEditable(e)
                                \/ IsExtensionLossEditable(e)
                                \/ IsExtensionOOXMLConvertable(e)
                                \/ IsExtensionViewOnly(e)
            /\ calls[g].ret <=> (GetFileType(e)[2] = nil)

C2_Witness ==
    /\ IsReturned(1, "IsExtensionSupported")
    /\ calls[1].arg = <<"X","L","S","B">>
    /\ calls[1].ret = TRUE

\* a string of one or more decimal digits after an optional sign
IsDecimalInteger(v) ==
    /\ v # <<>>
    /\ LET body == IF v[1] \in {"+", "-"} THEN Tail(v) ELSE v
       IN  /\ body # <<>>
           /\ \A i \in 1..Len(body) : \E d \in 1..10 : Digits[d] = body[i]

\* the integer a well-formed decimal string denotes
DecimalValue(v) ==
    LET body == IF v[1] \in {"+", "-"} THEN Tail(v) ELSE v
    IN  IF v[1] = "-" THEN -DigitsValue(body) ELSE DigitsValue(body)

\* the header value is an integer that fits Go's int and does not exceed the limit
LengthWithin(header, limit) ==
    /\ header.set
    /\ IsDecimalInteger(header.value)
    /\ DecimalValue(header.value) >= -(2^(IntSize - 1))
    /\ DecimalValue(header.value) <= 2^(IntSize - 1) - 1
    /\ DecimalValue(header.value) <= limit

C4_EscapeFilenameSanitizes ==
    \A g \in DOMAIN calls : IsReturned(g, "EscapeFilename") =>
        LET f == calls[g].arg
            r == calls[g].ret
        IN  /\ Len(r) = Len(f)
            /\ \A i \in 1..Len(r) : r[i] \notin {"/", "\\"}
            /\ \A i \in 1..Len(f) : r[i] = IF f[i] \in {"/", "\\"} THEN ":" ELSE f[i]
            /\ f # <<>> => r # <<>>
            /\ EscapeFilename(r) = r

C4_Witness ==
    /\ IsReturned(1, "EscapeFilename")
    /\ calls[1].arg = <<"a","/","B","\\">>
    /\ calls[1].ret = <<"a",":","B",":">>

\* C5: in every reachable state every key of the four tables is lowercase and
\* every value is "word", "cell" or "slide"; every view-only key maps to "word".
C5_KeysLowercaseValuesCategories ==
    /\ \A i \in 1..4 : \A k \in DOMAIN tables[i] :
          /\ \A j \in 1..Len(k) : k[j] = ToLowerRune(k[j])
          /\ tables[i][k] \in Categories
    /\ \A k \in DOMAIN OnlyofficeViewOnlyExtensions :
          OnlyofficeViewOnlyExtensions[k] = OnlyofficeWordType

C5_Witness ==
    /\ IsReturned(1, "IsExtensionViewOnly")
    /\ calls[1].arg = <<"P","D","F">>
    /\ calls[1].ret = TRUE
    /\ <<"p","d","f">> \in DOMAIN OnlyofficeViewOnlyExtensions

\* C6: no operation modifies the four tables, also when goroutines call side by
\* side: the tables keep their initial contents, and two calls of the same
\* operation (other than ValidateFileSize) on the same argument return the same.
C6_TablesNeverChange ==
    /\ tables = InitTables
    /\ \A g \in DOMAIN calls : \A h \in DOMAIN calls :
          ( /\ calls[g].pc = "returned"
            /\ calls[h].pc = "returned"
            /\ calls[g].op = calls[h].op
            /\ calls[g].op # "ValidateFileSize"
            /\ calls[g].arg = calls[h].arg )
          => calls[g].ret = calls[h].ret

C6_Witness ==
    /\ IsReturned(1, "GetFileType")
    /\ IsReturned(2, "GetFileType")
    /\ calls[1].arg = <<"e","x","e">>
    /\ calls[2].arg = <<"e","x","e">>
    /\ tables = InitTables

ExtensionOps == {"IsExtensionSupported", "IsExtensionEditable", "IsExtensionViewOnly",
                 "IsExtensionLossEditable", "IsExtensionOOXMLConvertable", "GetFileType"}

\* what the extension operation named op returns for e in the current state
ExtensionResult(op, e) ==
    CASE op = "IsExtensionSupported"        -> IsExtensionSupported(e)
      [] op = "IsExtensionEditable"         -> IsExtensionEditable(e)
      [] op = "IsExtensionViewOnly"         -> IsExtensionViewOnly(e)
      [] op = "IsExtensionLossEditable"     -> IsExtensionLossEditable(e)
      [] op = "IsExtensionOOXMLConvertable" -> IsExtensionOOXMLConvertable(e)
      [] op = "GetFileType"                 -> GetFileType(e)

\* C7: extension lookups are case-insensitive: each of the six extension
\* operations returns for every respelling of e in other letter case what it
\* returns for e.
C7_LookupsIgnoreCase ==
    \A g \in DOMAIN calls :
        (calls[g].pc = "returned" /\ calls[g].op \in ExtensionOps) =>
            \A e2 \in CaseVariants(calls[g].arg) :
                ExtensionResult(calls[g].op, e2) = calls[g].ret

C7_Witness ==
    /\ IsReturned(1, "IsExtensionViewOnly")
    /\ calls[1].arg = <<"D","j","V","u">>
    /\ calls[1].ret = TRUE

\* index of the last path separator of f, 0 when there is none
LastSeparator(f) ==
    IF \E i \in 1..Len(f) : IsPathSeparator(f[i])
    THEN CHOOSE i \in 1..Len(f) :
            /\ IsPathSeparator(f[i])
            /\ \A j \in (i + 1)..Len(f) : ~IsPathSeparator(f[j])
    ELSE 0

\* the final path element of f holds a dot
FinalElementHasDot(f) == \E i \in (LastSeparator(f) + 1)..Len(f) : f[i] = "."

\* C8: GetFileExt and GetFilenameWithoutExtension split f at the last dot of its
\* final path element: the extension holds no dot and no path separator, is a
\* suffix of f in f's own letter case and is empty when the final element has no
\* dot; the name without extension is f when there is no dot, and otherwise
\* name + "." + extension = f ("a.tar.gz" gives "a.tar" and "gz", ".bashrc" gives
\* "" and "bashrc").
C8_SplitAtLastDot ==
    \A g \in DOMAIN calls :
        /\ IsReturned(g, "GetFileExt") =>
             LET f == calls[g].arg
                 x == calls[g].ret
             IN  /\ \A i \in 1..Len(x) : x[i] # "." /\ ~IsPathSeparator(x[i])
                 /\ HasSuffix(f, x)
                 /\ ~FinalElementHasDot(f) => x = <<>>
                 /\ FinalElementHasDot(f) =>
                       GetFilenameWithoutExtension(f) \o <<".">> \o x = f
                 /\ f = <<"a",".","t","a","r",".","g","z">> => x = <<"g","z">>
                 /\ f = <<".","b","a","s","h","r","c">> => x = <<"b","a","s","h","r","c">>
        /\ IsReturned(g, "GetFilenameWithoutExtension") =>
             LET f == calls[g].arg
                 n == calls[g].ret
             IN  /\ ~FinalElementHasDot(f) => n = f
                 /\ FinalElementHasDot(f) => n \o <<".">> \o GetFileExt(f) = f
                 /\ f = <<"a",".","t","a","r",".","g","z">> => n = <<"a",".","t","a","r">>
                 /\ f = <<".","b","a","s","h","r","c">> => n = <<>>

C8_Witness ==
    /\ IsReturned(1, "GetFilenameWithoutExtension")
    /\ calls[1].arg = <<"a",".","t","a","r",".","g","z">>
    /\ calls[1].ret = <<"a",".","t","a","r">>

\* how many of the four table predicates hold for e
TablePredicatesTrue(e) ==
    Cardinality({p \in {"IsExtensionEditable", "IsExtensionLossEditable",
                        "IsExtensionOOXMLConvertable", "IsExtensionViewOnly"} :
                    ExtensionResult(p, e)})

\* C9: the key sets of the four tables are pairwise disjoint: for every extension
\* at most one of the four table predicates is true, exactly one when the
\* extension is supported, and whichever table GetFileType consults first, the
\* type it finds is the same.
C9_TablesDisjoint ==
    /\ \A i \in 1..4 : \A j \in 1..4 :
          i # j => DOMAIN tables[i] \cap DOMAIN tables[j] = {}
    /\ \A g \in DOMAIN calls :
          (calls[g].pc = "returned" /\ calls[g].op \in ExtensionOps) =>
              LET e == calls[g].arg
              IN  /\ TablePredicatesTrue(e) <= 1
                  /\ IsExtensionSupported(e) => TablePredicatesTrue(e) = 1
                  /\ calls[g].op = "GetFileType" =>
                        \A i \in TablesWith(ToLower(e)) :
                            tables[i][ToLower(e)] = calls[g].ret[1]

C9_Witness ==
    /\ IsReturned(1, "GetFileType")
    /\ calls[1].arg = <<"H","t","m","L">>
    /\ calls[1].ret = <<OnlyofficeWordType, nil>>
    /\ TablePredicatesTrue(calls[1].arg) = 1

\* two goroutines have both returned from ValidateFileSize
BothValidated(g, h) == IsReturned(g, "ValidateFileSize") /\ IsReturned(h, "ValidateFileSize")

\* C10 as stated: two ValidateFileSize calls that agree on limit, on whether the
\* HEAD request failed at transport level and on the Content-Length header return
\* the same result.
C10_AsStated ==
    \A g \in DOMAIN calls : \A h \in DOMAIN calls :
        ( /\ BothValidated(g, h)
          /\ calls[g].arg.limit = calls[h].arg.limit
          /\ (calls[g].arg.head.err = nil) <=> (calls[h].arg.head.err = nil)
          /\ calls[g].arg.head.resp.header = calls[h].arg.head.resp.header )
        => calls[g].ret = calls[h].ret

\* C10 amended: two ValidateFileSize calls that agree on limit, on the error the
\* HEAD request returned (nil or the same transport error) and on the
\* Content-Length header return the same result, whatever their ctx arguments and
\* the status codes of the responses.
C10_ResultIgnoresCtxAndStatus ==
    \A g \in DOMAIN calls : \A h \in DOMAIN calls :
        ( /\ BothValidated(g, h)
          /\ calls[g].arg.limit = calls[h].arg.limit
          /\ calls[g].arg.head.err = calls[h].arg.head.err
          /\ calls[g].arg.head.resp.header = calls[h].arg.head.resp.header )
        => calls[g].ret = calls[h].ret

C10_Witness ==
    /\ BothValidated(1, 2)
    /\ calls[1].arg.ctx = "background" /\ calls[2].arg.ctx = "cancelled"
    /\ calls[1].arg.head.err = nil /\ calls[2].arg.head.err = nil
    /\ calls[1].arg.head.resp.status = 200 /\ calls[2].arg.head.resp.status = 404
    /\ calls[1].arg.head.resp.header = [set |-> TRUE, value |-> <<"1","0">>]
    /\ calls[2].arg.head.resp.header = [set |-> TRUE, value |-> <<"1","0">>]
    /\ calls[1].ret = nil /\ calls[2].ret = nil

====
